---- MODULE Spec2Model ----
(***************************************************************************)
(* vite-plugin-ssam-ffmpeg: the recording session of src/src/index.ts      *)
(* (the current plugin, lines 1-311) as a state machine.                   *)
(*                                                                         *)
(* One step is one run-to-completion piece of JavaScript: the plugin's     *)
(* configureServer up to the end of the ffmpeg probe, one websocket        *)
(* handler ("ssam:ffmpeg", "ssam:ffmpeg-newframe", "ssam:ffmpeg-done"),    *)
(* or one completion callback of stdin.write.                              *)
(***************************************************************************)
EXTENDS Integers, Sequences, FiniteSets, TLC

\* ------------------------------------------------------------------ bounds
\* start events handled with ffmpeg installed plus stdin.write calls issued,
\* in one behaviour
MaxWork == 4
\* largest requested width and height of the start payloads of SpecCrop
MaxDim == 6
\* events of the behaviour that SpecTwin runs twice, with opts.log on and off
MaxTrace == 7

\* ------------------------------------------------------- program constants
\* defaultOptions.padLength
padLength == 5

\* defaultOptions.outDir
outDir == "./output"

\* the value of a `let` that has not been assigned yet
Undefined == "undefined"

VARIABLES
  pc,                 \* "loading": configureServer awaits the probe; "serving": handlers registered
  log,                \* opts.log
  isFfmpegInstalled,
  isFfmpegReady,
  filename, format,
  width, height,      \* <<>>: not assigned yet; <<n>>: the number n
  totalFrames,
  framesRecorded,
  cropped, msgCropped,
  subDir,
  stdin,              \* 0: not assigned; n: the stdin of procs[n]
  procs,              \* the spawned ffmpeg subprocesses, in spawn order
  dirs,               \* the directories that exist on disk
  last,               \* the step just taken: what ran, its payload, what it sent
  accepted,           \* history: the frame events that passed the newframe guard
  session,            \* history: number of start events that opened a session
  starts,             \* history: number of start events handled with ffmpeg installed
  handshake,          \* producer: TRUE if it waits for a reqframe after each frame
  awaiting,           \* handshake producer: a frame was sent and no reqframe has come since
  twin                \* SpecTwin: the events and observations of the run with opts.log on

descriptor == <<filename, format, width, height, totalFrames, cropped, msgCropped, subDir>>
producer == <<handshake, awaiting>>
history == <<accepted, session, starts>>
vars == <<pc, log, isFfmpegInstalled, isFfmpegReady, descriptor, framesRecorded,
          stdin, procs, dirs, last, history, producer, twin>>

\* ------------------------------------------------------------ numbers
\* A JavaScript number of a start payload, as the fraction num/den.
Num(n, d) == [num |-> n, den |-> d]

\* Math.floor
Floor(x) == x.num \div x.den

\* the JavaScript remainder a % b for b > 0: it has the sign of a
JsRem(a, b) == IF a >= 0 THEN a % b ELSE -((-a) % b)

\* ------------------------------------------------------------ messages
\* client.send(type, { msg }) / console output; nums are the numbers in the text
Message(type, text, str, nums) == [type |-> type, text |-> text, str |-> str, nums |-> nums]

IsReqFrame(m) == m.type = "ssam:ffmpeg-reqframe"

ReqFrame == Message("ssam:ffmpeg-reqframe", "", "", <<>>)

\* `log && client.send(type, ...)`
LogSend(type, text, str, nums) == IF log THEN <<Message(type, text, str, nums)>> ELSE <<>>

\* tick flips at every step, so that two equal steps in a row are two steps
Step(ev, data, out, con) ==
  [ev |-> ev, data |-> data, out |-> out, con |-> con, tick |-> ~last.tick]

\* the payload of a step that has none; every payload is a record
NoData == [none |-> TRUE]

\* ------------------------------------------------------------ inputs
Base == [filename |-> "clip", format |-> "mp4", totalFrames |-> 0,
         width |-> Num(4, 1), height |-> Num(2, 1), fps |-> 30]

StartPayloads ==
  { Base,
    [Base EXCEPT !.format = "png", !.filename = "loop", !.totalFrames = 2,
                 !.width = Num(7, 2), !.height = Num(5, 1)],
    [Base EXCEPT !.format = "gif", !.width = Num(3, 1)],
    [Base EXCEPT !.width = Num(0, 1), !.height = Num(-3, 1), !.fps = 0] }

\* data.image of a newframe payload, as image.split(","): a data URL is
\* "data:image/png;base64" "," base64 text
Images == {<<"data:image/png;base64", b>> : b \in {"iVBORw0KGgo=", "iVBORw0KGgp="}}

\* Buffer.from(data.image.split(",")[1], "base64"): the bytes of the segment
\* after the first comma
Decode(image) == [bytes |-> image[2]]

\* ------------------------------------------------------------ state
Init ==
  /\ pc = "loading"
  /\ log \in BOOLEAN
  /\ isFfmpegInstalled = FALSE
  /\ isFfmpegReady = FALSE
  /\ filename = Undefined /\ format = Undefined
  /\ width = <<>> /\ height = <<>>
  /\ totalFrames = 0
  /\ framesRecorded = 0
  /\ cropped = FALSE /\ msgCropped = <<>>
  /\ subDir = <<>>
  /\ stdin = 0
  /\ procs = <<>>
  /\ dirs = {}
  /\ last = [ev |-> "init", data |-> NoData, out |-> <<>>, con |-> <<>>, tick |-> FALSE]
  /\ accepted = <<>>
  /\ session = 0
  /\ starts = 0
  /\ awaiting = FALSE

\* the handshake producer hears the notifications of a step at once
Heard(out, before) ==
  IF \E i \in 1..Len(out) : IsReqFrame(out[i]) THEN FALSE ELSE before

\* configureServer: `await execPromise("ffmpeg -version")`
Probe(ok) ==
  /\ pc = "loading"
  /\ pc' = "serving"
  /\ isFfmpegInstalled' = ok
  /\ last' = IF ok THEN Step("probe", NoData, <<>>, <<>>)
             ELSE Step("probe", NoData,
                       LogSend("ssam:warn", "probe failed", "abort", <<>>),
                       <<Message("console.warn", "probe failed", "", <<>>)>>)
  /\ UNCHANGED <<log, isFfmpegReady, descriptor, framesRecorded, stdin, procs, dirs,
                 history, producer>>

\* ------------------------------------------------------------ encoder
\* spawn("ffmpeg", [...]): a subprocess with its command line and its stdin.
\* written: the buffers handed to stdin.write, in call order; done: how many
\* of their callbacks have run; ok: how many of those without error.
\* size: the size of the frames the client streams in (data.width and
\* data.height, floored); crop: the crop=w:h:0:0 filter applied to them.
Proc(fmt, size, crop, fps, out) ==
  [fmt |-> fmt, size |-> size, crop |-> crop, fps |-> fps, out |-> out,
   pad |-> IF fmt = "png" THEN padLength ELSE 0,
   written |-> <<>>, done |-> 0, ok |-> 0, broken |-> FALSE, ended |-> FALSE]

\* path.join(outDir, `${filename}.${format}`)
VideoPath(name, fmt) == <<outDir, name, fmt>>

\* path.join(outDir, filename)
SubDirOf(name) == <<outDir, name>>

\* path.join(subDir, `%0${padLength}d.${format}`)
SequencePath(dir, fmt) == dir \o <<"%0d", fmt>>

\* an odd dimension rounded up instead of down
CropEvenUp(n) == IF JsRem(n, 2) = 0 THEN n ELSE n + 1

\* const newWidth = width % 2 === 0 ? width : width - 1
CropEven(n) == IF JsRem(n, 2) = 0 THEN n ELSE n - 1

\* if (width % 2 !== 0 || height % 2 !== 0)
NeedsCrop(w, h) == JsRem(w, 2) # 0 \/ JsRem(h, 2) # 0

Pending(p) == Len(procs[p].written) - procs[p].done

WritesIssued == IF procs = <<>> THEN 0
                ELSE LET f[i \in 0..Len(procs)] ==
                           IF i = 0 THEN 0 ELSE f[i - 1] + Len(procs[i].written)
                     IN f[Len(procs)]

\* ------------------------------------------------------------ "ssam:ffmpeg"
\* the handler without its isFfmpegInstalled check
StartNeverRejected == FALSE

\* if (!isFfmpegInstalled) { warn; return }
StartRejected == ~isFfmpegInstalled

\* a dispatch whose last branch takes every other format
RecognizedAny(fmt) == TRUE

\* the format branches that spawn an encoder
Recognized(fmt) == fmt \in {"mp4", "png"}

\* the png branch with its commented-out request for the first frame restored
StartedOutBoth(fmt) ==
  LogSend("ssam:log", "streaming started", fmt, <<>>) \o <<ReqFrame>>

\* the request for the first frame sent like the log, `log && client.send`
StartedOutGated(fmt) ==
  LogSend("ssam:log", "streaming started", fmt, <<>>)
  \o (IF fmt = "mp4" /\ log THEN <<ReqFrame>> ELSE <<>>)

\* what the handler sends once the encoder is spawned
StartedOut(fmt) ==
  LogSend("ssam:log", "streaming started", fmt, <<>>)
  \o (IF fmt = "mp4" THEN <<ReqFrame>> ELSE <<>>)

Start(data) ==
  /\ pc = "serving"
  /\ IF StartRejected
     THEN /\ last' = Step("start", data,
                          LogSend("ssam:warn", "ffmpeg was not found", "", <<>>),
                          <<Message("console.warn", "ffmpeg was not found", "", <<>>)>>)
          /\ awaiting' = FALSE
          /\ UNCHANGED <<pc, log, isFfmpegInstalled, isFfmpegReady, descriptor,
                         framesRecorded, stdin, procs, dirs, history, handshake>>
     ELSE LET w == Floor(data.width)
              h == Floor(data.height)
              newWidth == CropEven(w)
              newHeight == CropEven(h)
              fmt == data.format
              sub == SubDirOf(data.filename)
              out == IF Recognized(fmt) THEN StartedOut(fmt) ELSE <<>>
          IN
          /\ starts + WritesIssued < MaxWork
          /\ starts' = starts + 1
          /\ filename' = data.filename
          /\ format' = fmt
          /\ totalFrames' = data.totalFrames
          /\ framesRecorded' = 0
          /\ width' = <<w>>
          /\ height' = <<h>>
          /\ cropped' = NeedsCrop(w, h)
          /\ msgCropped' = IF NeedsCrop(w, h) THEN <<newWidth, newHeight>> ELSE msgCropped
          /\ subDir' = IF fmt = "png" THEN sub ELSE subDir
          /\ dirs' = dirs \cup {<<outDir>>} \cup (IF fmt = "png" THEN {sub} ELSE {})
          /\ procs' = IF fmt = "mp4"
                        THEN Append(procs, Proc(fmt, <<w, h>>, <<newWidth, newHeight>>, data.fps,
                                                 VideoPath(data.filename, fmt)))
                      ELSE IF fmt = "png"
                        THEN Append(procs, Proc(fmt, <<w, h>>, <<newWidth, newHeight>>, data.fps,
                                                 SequencePath(sub, fmt)))
                      ELSE procs
          /\ stdin' = IF Recognized(fmt) THEN Len(procs) + 1 ELSE stdin
          /\ isFfmpegReady' = IF Recognized(fmt) THEN TRUE ELSE isFfmpegReady
          /\ session' = IF Recognized(fmt) THEN session + 1 ELSE session
          /\ last' = Step("start", data, out,
                          (IF <<outDir>> \in dirs THEN <<>>
                           ELSE <<Message("console.log", "creating a new directory", outDir, <<>>)>>)
                          \o (IF fmt = "png" /\ sub \notin dirs
                              THEN <<Message("console.log", "creating a new directory",
                                             data.filename, <<>>)>>
                              ELSE <<>>)
                          \o (IF Recognized(fmt)
                              THEN <<Message("console.log", "streaming started", fmt, <<>>)>>
                              ELSE <<>>))
          /\ awaiting' = FALSE
          /\ UNCHANGED <<pc, log, isFfmpegInstalled, accepted, handshake>>

\* ---------------------------------------------------- "ssam:ffmpeg-newframe"
\* the guard without its isFfmpegReady check
NewframeIgnoredNotInstalled == ~isFfmpegInstalled

\* if (!isFfmpegInstalled || !isFfmpegReady) return
NewframeIgnored == ~isFfmpegInstalled \/ ~isFfmpegReady

\* a handle taken from the first spawn and never refreshed
WriteTargetFirst == IF stdin = 0 THEN 0 ELSE 1

\* the stream stdin.write is called on
WriteTarget == stdin

\* the counter left as it is
CountFrameNone(n) == n

\* framesRecorded++
CountFrame(n) == n + 1

\* `${framesRecorded} of ${totalFrames ? totalFrames : "Infinity"}`
Progress(n, total) ==
  IF total # 0 THEN Message("ssam:log", "recording frame n of total", format, <<n, total>>)
  ELSE Message("ssam:log", "recording frame n of Infinity", format, <<n>>)

\* With no stdin assigned, stdin.write throws before anything is changed.
Newframe(image) ==
  /\ pc = "serving"
  /\ handshake => ~awaiting
  /\ awaiting' = handshake
  /\ UNCHANGED handshake
  /\ IF NewframeIgnored \/ WriteTarget = 0
     THEN /\ last' = Step("frame", [image |-> image], <<>>, <<>>)
          /\ UNCHANGED <<pc, log, isFfmpegInstalled, isFfmpegReady, descriptor,
                         framesRecorded, stdin, procs, dirs, history>>
     ELSE LET buffer == Decode(image)
              n == CountFrame(framesRecorded)
          IN
          /\ starts + WritesIssued < MaxWork
          /\ procs' = [procs EXCEPT ![WriteTarget].written = Append(@, buffer)]
          /\ framesRecorded' = n
          /\ accepted' = Append(accepted, [session |-> session, buffer |-> buffer])
          /\ last' = Step("frame", [image |-> image],
                          IF log THEN <<Progress(n, totalFrames)>> ELSE <<>>,
                          <<[Progress(n, totalFrames) EXCEPT !.type = "console.log"]>>)
          /\ UNCHANGED <<pc, log, isFfmpegInstalled, isFfmpegReady, descriptor,
                         stdin, dirs, session, starts>>

\* a callback that never requests the next frame
WriteCallbackNever(error) == <<>>

\* a callback that requests the next frame whether or not the write failed
WriteCallbackAlways(error) == <<ReqFrame>>

\* the callback of stdin.write(buffer, (error) => { ... })
WriteCallback(error) == IF error THEN <<>> ELSE <<ReqFrame>>

\* The pipe completes the oldest outstanding write of subprocess p, with or
\* without an error; once a write has failed the stream is destroyed and every
\* later write on it fails too.
Written(p, error) ==
  /\ pc = "serving"
  /\ p \in 1..Len(procs)
  /\ Pending(p) > 0
  /\ procs[p].broken => error
  /\ procs' = [procs EXCEPT ![p].done = @ + 1,
                            ![p].ok = IF error THEN @ ELSE @ + 1,
                            ![p].broken = @ \/ error]
  /\ last' = Step("written", [proc |-> p, error |-> error], WriteCallback(error),
                  IF error THEN <<Message("console.error", "error", "", <<>>)>> ELSE <<>>)
  /\ awaiting' = Heard(WriteCallback(error), awaiting)
  /\ UNCHANGED <<pc, log, isFfmpegInstalled, isFfmpegReady, descriptor, framesRecorded,
                 stdin, dirs, history, handshake>>

\* ------------------------------------------------------- "ssam:ffmpeg-done"
\* the guard without its isFfmpegReady check
DoneIgnoredNotInstalled == ~isFfmpegInstalled

\* if (!isFfmpegInstalled || !isFfmpegReady) return
DoneIgnored == ~isFfmpegInstalled \/ ~isFfmpegReady

\* the completion message, by format
CompleteText(type) ==
  IF format = "mp4"
    THEN [type |-> type, text |-> "recording complete", str |-> format,
          nums |-> <<>>, path |-> VideoPath(filename, format)]
  ELSE IF format = "png"
    THEN [type |-> type, text |-> "recording complete", str |-> format,
          nums |-> <<padLength>>, path |-> subDir \o <<"*", format>>]
  ELSE [type |-> type, text |-> "", str |-> "", nums |-> <<>>, path |-> <<>>]

\* With no stdin assigned, stdin.end throws before anything is changed.
Done ==
  /\ pc = "serving"
  /\ IF DoneIgnored \/ stdin = 0
     THEN /\ last' = Step("finish", NoData, <<>>, <<>>)
          /\ UNCHANGED <<pc, log, isFfmpegInstalled, isFfmpegReady, descriptor,
                         framesRecorded, stdin, procs, dirs, history, producer>>
     ELSE /\ procs' = [procs EXCEPT ![stdin].ended = TRUE]
          /\ isFfmpegReady' = FALSE
          /\ framesRecorded' = 0
          /\ last' = Step("finish", NoData,
                          (IF log THEN <<CompleteText("ssam:log")>> ELSE <<>>)
                          \o (IF cropped /\ log
                              THEN <<Message("ssam:warn", "output dimensions cropped", "", msgCropped)>>
                              ELSE <<>>),
                          <<CompleteText("console.log")>>
                          \o (IF cropped
                              THEN <<Message("console.warn", "output dimensions cropped", "", msgCropped)>>
                              ELSE <<>>))
          /\ UNCHANGED <<pc, log, isFfmpegInstalled, descriptor, stdin, dirs,
                         history, producer>>

\* one behaviour of one plugin instance: nothing is recorded for a second run
NoTwin == [mode |-> "single", trace |-> <<>>, obs |-> <<>>, idx |-> 0]

Next ==
  \/ \E ok \in BOOLEAN : Probe(ok) /\ UNCHANGED twin
  \/ \E data \in StartPayloads : Start(data) /\ UNCHANGED twin
  \/ \E image \in Images : Newframe(image) /\ UNCHANGED twin
  \/ \E p \in 1..Len(procs), error \in BOOLEAN : Written(p, error) /\ UNCHANGED twin
  \/ Done /\ UNCHANGED twin

\* any producer: frame events arrive whenever the producer likes
InitAny == Init /\ handshake = FALSE /\ twin = NoTwin

Spec == InitAny /\ [][Next]_vars

\* a producer that honours the handshake: after a start it sends a frame only
\* when no frame of its own is waiting for a request-next-frame
InitHandshake == Init /\ handshake = TRUE /\ twin = NoTwin

SpecHandshake == InitHandshake /\ [][Next]_vars

\* The pipe completes every write, and no write fails: each stdin.write
\* callback eventually runs, and runs without an error. The producer follows
\* the handshake. A completed write always changes procs (its done count),
\* so fairness on the procs-changing steps is fairness on every such step.
WriteCompletes(p) == p \in 1..Len(procs) /\ Written(p, FALSE)

\* The recordings of SpecLive: the start payloads that open a session, in
\* either format, and frames that all carry the same image.
LivePayloads == {data \in StartPayloads : Recognized(data.format) /\ data.fps > 0}

LiveImage == <<"data:image/png;base64", "iVBORw0KGgo=">>

NextLive ==
  \/ \E ok \in BOOLEAN : Probe(ok) /\ UNCHANGED twin
  \/ \E data \in LivePayloads : Start(data) /\ UNCHANGED twin
  \/ Newframe(LiveImage) /\ UNCHANGED twin
  \/ \E p \in 1..MaxWork : WriteCompletes(p) /\ UNCHANGED twin
  \/ Done /\ UNCHANGED twin

SpecLive ==
  /\ InitHandshake
  /\ [][NextLive]_vars
  /\ \A p \in 1..MaxWork : WF_procs(WriteCompletes(p))

\* One recording started with any positive integer width and height up to
\* MaxDim, in either output format: the inputs of the crop computation.
CropPayloads ==
  {[Base EXCEPT !.format = f, !.width = Num(w, 1), !.height = Num(h, 1)] :
     f \in {"mp4", "png"}, w \in 1..MaxDim, h \in 1..MaxDim}

NextCrop ==
  \/ \E ok \in BOOLEAN : Probe(ok) /\ UNCHANGED twin
  \/ \E data \in CropPayloads : starts = 0 /\ Start(data) /\ UNCHANGED twin

SpecCrop == InitAny /\ [][NextCrop]_vars

\* ------------------------------------------------------------ two runs
\* The same events handled by two plugin instances, the first constructed
\* with opts.log = true and the second with opts.log = false. The first run
\* records each event (what arrived: the probe's outcome, a handler's
\* payload, a write callback's error) and what could be observed after it;
\* then the plugin is constructed again with log off and the recorded events
\* are handled again, in the same order.
EventOf ==
  [ev |-> last.ev, data |-> last.data, ok |-> last.ev = "probe" /\ isFfmpegInstalled]

\* everything but the log and warning notifications: the module state, the
\* subprocesses with the bytes written to them, the disk, and the
\* request-next-frame notifications of the step
Observed ==
  [pc |-> pc, isFfmpegInstalled |-> isFfmpegInstalled, isFfmpegReady |-> isFfmpegReady,
   descriptor |-> descriptor, framesRecorded |-> framesRecorded, stdin |-> stdin,
   procs |-> procs, dirs |-> dirs, accepted |-> accepted,
   reqframes |-> SelectSeq(last.out, IsReqFrame)]

TwinHandlers ==
  \/ \E ok \in BOOLEAN : Probe(ok)
  \/ \E data \in LivePayloads : Start(data)
  \/ Newframe(LiveImage)
  \/ \E p \in 1..Len(procs), error \in BOOLEAN : Written(p, error)
  \/ Done

Record ==
  /\ twin.mode = "record"
  /\ Len(twin.trace) < MaxTrace
  /\ TwinHandlers
  /\ twin' = [twin EXCEPT !.trace = Append(@, EventOf'), !.obs = Append(@, Observed')]

\* ssamFfmpeg({ log: false }): the module state as in Init
Restart ==
  /\ twin.mode = "record"
  /\ Len(twin.trace) = MaxTrace
  /\ twin' = [twin EXCEPT !.mode = "replay"]
  /\ log' = FALSE
  /\ pc' = "loading"
  /\ isFfmpegInstalled' = FALSE /\ isFfmpegReady' = FALSE
  /\ filename' = Undefined /\ format' = Undefined
  /\ width' = <<>> /\ height' = <<>>
  /\ totalFrames' = 0 /\ framesRecorded' = 0
  /\ cropped' = FALSE /\ msgCropped' = <<>>
  /\ subDir' = <<>>
  /\ stdin' = 0 /\ procs' = <<>> /\ dirs' = {}
  /\ last' = [ev |-> "init", data |-> NoData, out |-> <<>>, con |-> <<>>, tick |-> FALSE]
  /\ accepted' = <<>> /\ session' = 0 /\ starts' = 0
  /\ awaiting' = FALSE
  /\ UNCHANGED handshake

Replay ==
  /\ twin.mode = "replay"
  /\ twin.idx < Len(twin.trace)
  /\ TwinHandlers
  /\ EventOf' = twin.trace[twin.idx + 1]
  /\ twin' = [twin EXCEPT !.idx = @ + 1]

NextTwin == Record \/ Restart \/ Replay

InitTwin ==
  /\ Init /\ log = TRUE /\ handshake = FALSE
  /\ twin = [NoTwin EXCEPT !.mode = "record"]

SpecTwin == InitTwin /\ [][NextTwin]_vars

\* ------------------------------------------------------------ observations
\* The phase of the session state machine, read off the two flags the handlers
\* guard on.
Phase == IF isFfmpegInstalled /\ isFfmpegReady THEN "Streaming" ELSE "Idle"

\* the request-next-frame notifications among the messages of a step
ReqFrames(out) == Cardinality({i \in 1..Len(out) : IsReqFrame(out[i])})

\* the messages of one type among the messages of a step
OfType(out, type) == {i \in 1..Len(out) : out[i].type = type}

\* writes handed to some encoder's stdin whose callback has not run yet
PendingWrites ==
  LET f[i \in 0..Len(procs)] == IF i = 0 THEN 0 ELSE f[i - 1] + Pending(i)
  IN f[Len(procs)]

\* the buffers of the frame events accepted in session s, in acceptance order
FramesOf(s) ==
  LET own == SelectSeq(accepted, LAMBDA a : a.session = s)
  IN [i \in 1..Len(own) |-> own[i].buffer]

\* the crop warnings among the messages of a step
CropWarnings(out) ==
  {i \in 1..Len(out) : out[i].type = "ssam:warn" /\ out[i].text = "output dimensions cropped"}

\* spawned subprocesses whose stdin has not been ended
LiveEncoders == {p \in 1..Len(procs) : ~procs[p].ended}

\* ------------------------------------------------------------ C1
\* C1: in phase Streaming, a frame write that completes successfully sends
\* exactly one request-next-frame to the client, and a frame write that
\* completes with an error sends none.
C1_ReqFramePerWrite ==
  [][(last'.ev = "written" /\ Phase = "Streaming")
       => ReqFrames(last'.out) = (IF last'.data.error THEN 0 ELSE 1)]_vars

\* a write has just completed without error while Streaming, and one
\* request-next-frame went out
C1_Witness ==
  /\ last.ev = "written" /\ ~last.data.error
  /\ Phase = "Streaming"
  /\ ReqFrames(last.out) = 1

\* ------------------------------------------------------------ C2
\* C2: with a producer that honours the handshake (SpecHandshake), at most one
\* frame write is pending at any time, over any sequence of sessions and for
\* both output formats.
C2_OneWritePending == PendingWrites <= 1

\* ------------------------------------------------------------ C3
\* C3: the buffers written to each encoder's stdin are exactly the frames
\* accepted in that encoder's session, in acceptance order: none dropped,
\* duplicated, reordered or written to another session's encoder; the pipe
\* has completed a prefix of them.
C3_FrameOrder ==
  /\ session = Len(procs)
  /\ \A p \in 1..Len(procs) :
       /\ procs[p].written = FramesOf(p)
       /\ procs[p].ok <= procs[p].done
       /\ procs[p].done <= Len(procs[p].written)
  /\ \A i \in 1..Len(accepted) : accepted[i].session \in 1..Len(procs)

\* two different frames were accepted in the first session and a second
\* session has been opened since
C3_Witness ==
  /\ Len(procs) = 2
  /\ Len(procs[1].written) = 2
  /\ procs[1].written[1] # procs[1].written[2]
  /\ procs[2].written = <<>>

C5_IdleEventsIgnored ==
  [][(last'.ev \in {"frame", "finish"} /\ Phase = "Idle")
       => /\ UNCHANGED <<framesRecorded, isFfmpegInstalled, isFfmpegReady,
                         descriptor, stdin, procs, dirs>>
          /\ last'.out = <<>>
          /\ last'.con = <<>>]_vars

\* a stray frame event after a finish: the encoder's stdin is ended and the
\* frame was not written
C5_Witness ==
  /\ last.ev = "frame"
  /\ Phase = "Idle"
  /\ stdin # 0 /\ procs[stdin].ended
  /\ last.out = <<>>

\* ------------------------------------------------------------ C6
\* C6: every finish event leaves framesRecorded = 0 and the phase Idle, and a
\* finish event that directly follows a finish event closes no pipe and
\* sends no completion log or crop warning.
C6_FinishIdempotent ==
  [][last'.ev = "finish"
       => /\ framesRecorded' = 0
          /\ ~isFfmpegReady'
          /\ last.ev = "finish"
               => /\ UNCHANGED <<framesRecorded, isFfmpegReady, descriptor, stdin,
                                 procs, dirs>>
                  /\ last'.out = <<>>
                  /\ last'.con = <<>>]_vars

\* a finish event was ignored after an earlier finish had ended the encoder's
\* stdin
C6_Witness ==
  /\ last.ev = "finish"
  /\ last.con = <<>>
  /\ stdin # 0 /\ procs[stdin].ended
  /\ framesRecorded = 0 /\ Phase = "Idle"

\* ------------------------------------------------------------ C7
\* C7 as stated: if the probe failed, no encoder is ever spawned, no output
\* directory is ever created, the phase is never Streaming, and every start
\* event is answered with a warning notification.
C7_Original ==
  [][(pc' = "serving" /\ ~isFfmpegInstalled')
       => /\ procs' = <<>>
          /\ dirs' = {}
          /\ Phase' = "Idle"
          /\ last'.ev = "start" => OfType(last'.out, "ssam:warn") # {}]_vars

\* C7 amended: if the probe failed, no encoder is ever spawned, no output
\* directory is ever created, the phase is never Streaming, and every start
\* event is answered with a warning on the server console and, when the log
\* option is enabled (the default), with one warning notification to the
\* client; with the log option disabled nothing is sent to the client.
C7_ProbeFailed ==
  [][(pc' = "serving" /\ ~isFfmpegInstalled')
       => /\ procs' = <<>>
          /\ dirs' = {}
          /\ Phase' = "Idle"
          /\ last'.ev = "start"
               => /\ OfType(last'.con, "console.warn") # {}
                  /\ log => Len(last'.out) = 1 /\ OfType(last'.out, "ssam:warn") = {1}
                  /\ ~log => last'.out = <<>>]_vars

\* the probe failed, a start event was handled and the client was warned
C7_Witness ==
  /\ pc = "serving" /\ ~isFfmpegInstalled
  /\ last.ev = "start"
  /\ OfType(last.out, "ssam:warn") = {1}
  /\ procs = <<>> /\ dirs = {}

\* ------------------------------------------------------------ C8
\* C8: a start event received while the phase is Streaming is a silent no-op:
\* no second encoder is spawned, the encoder handle, the session descriptor
\* and framesRecorded are unchanged, and no notification is sent.
C8_StartWhileStreamingIgnored ==
  [][(last'.ev = "start" /\ Phase = "Streaming")
       => /\ UNCHANGED <<procs, stdin, filename, format, width, height, totalFrames,
                         framesRecorded>>
          /\ last'.out = <<>>]_vars

\* ------------------------------------------------------------ C9
\* C9: in every reachable state at most one spawned encoder has a stdin that
\* has not been ended.
C9_OneLiveEncoder == Cardinality(LiveEncoders) <= 1

\* ------------------------------------------------------------ C10
\* a start payload whose width, height or frame rate is not positive
NonPositive(data) == data.width.num <= 0 \/ data.height.num <= 0 \/ data.fps <= 0

\* C10: a start event whose width, height or frame rate is not positive is
\* rejected: no encoder is spawned, the phase does not become Streaming, and
\* no started-notification or request-next-frame is sent.
C10_InvalidParametersRejected ==
  [][(last'.ev = "start" /\ NonPositive(last'.data))
       => /\ procs' = procs
          /\ Phase = "Idle" => Phase' = "Idle"
          /\ OfType(last'.out, "ssam:log") = {}
          /\ ReqFrames(last'.out) = 0]_vars

\* ------------------------------------------------------------ C11
\* C11: a start event with an unrecognized format mutates no state:
\* framesRecorded, the stored output name, format, dimensions, expected frame
\* count, the cropped flag, the pending crop warning and the disk are left as
\* they were, in Idle and in Streaming.
C11_UnknownFormatMutatesNothing ==
  [][(last'.ev = "start" /\ last'.data.format \notin {"mp4", "png"})
       => /\ filename' = filename
          /\ format' = format
          /\ framesRecorded' = framesRecorded
          /\ totalFrames' = totalFrames
          /\ width' = width
          /\ height' = height
          /\ cropped' = cropped
          /\ msgCropped' = msgCropped
          /\ dirs' = dirs]_vars

\* ------------------------------------------------------------ C12
\* C12: for every start with positive integer requested width and height, the
\* crop passed to the encoder is no larger than requested in either axis, is
\* even in both, differs from the requested value by at most 1, and the
\* cropped flag is set exactly when a requested dimension is odd.
C12_EvenCrop ==
  (last.ev = "start" /\ isFfmpegInstalled)
    => LET w == last.data.width.num
           h == last.data.height.num
           crop == procs[stdin].crop
       IN /\ crop[1] <= w /\ crop[2] <= h
          /\ crop[1] % 2 = 0 /\ crop[2] % 2 = 0
          /\ w - crop[1] <= 1 /\ h - crop[2] <= 1
          /\ cropped <=> (w % 2 = 1 \/ h % 2 = 1)

\* an encoder was spawned with the crop 4:2 for a requested 5 by 3
C12_Witness ==
  /\ last.ev = "start" /\ isFfmpegInstalled
  /\ last.data.width.num = 5 /\ last.data.height.num = 3
  /\ procs[stdin].crop = <<4, 2>>
  /\ cropped

\* ------------------------------------------------------------ C13
\* C13: the crop warning is never sent during a start or frame event, and a
\* finish accepted in Streaming sends it, after the completion log, if and
\* only if the session being finished was started with an odd width or
\* height; so the finish of an uncropped session that follows a cropped one
\* sends no crop warning. Stated for opts.log enabled, the default, where
\* client notifications are sent at all.
C13_CropWarningAtFinish ==
  [][log =>
       /\ last'.ev \in {"start", "frame"} => CropWarnings(last'.out) = {}
       /\ (last'.ev = "finish" /\ Phase = "Streaming")
            => LET size == procs[stdin].size
                   odd == size[1] % 2 = 1 \/ size[2] % 2 = 1
                   out == last'.out
               IN IF odd
                    THEN /\ Len(out) = 2
                         /\ out[1].type = "ssam:log"
                         /\ CropWarnings(out) = {2}
                    ELSE CropWarnings(out) = {}]_vars

\* ------------------------------------------------------------ C14
\* C14: a frame write that fails sends no request-next-frame and changes
\* neither the phase nor the encoder handle nor the frame counter; the phase
\* leaves Streaming and an encoder's stdin is ended only at a finish event;
\* a finish accepted in Streaming returns to Idle with framesRecorded = 0;
\* and a following start with a recognized format opens a session on a fresh
\* pipe, whose successful writes are acknowledged again.
C14_WriteFailureStalls ==
  [][/\ (last'.ev = "written" /\ last'.data.error)
          => /\ ReqFrames(last'.out) = 0
             /\ UNCHANGED <<stdin, isFfmpegReady, isFfmpegInstalled, framesRecorded>>
     /\ (Phase = "Streaming" /\ Phase' = "Idle") => last'.ev = "finish"
     /\ \A p \in 1..Len(procs) :
          procs'[p].ended # procs[p].ended => (last'.ev = "finish" /\ p = stdin)
     /\ (last'.ev = "finish" /\ Phase = "Streaming")
          => (Phase' = "Idle" /\ framesRecorded' = 0)
     /\ (last'.ev = "start" /\ isFfmpegInstalled /\ last'.data.format \in {"mp4", "png"})
          => /\ Phase' = "Streaming"
             /\ stdin' = Len(procs) + 1
             /\ procs'[stdin'].written = <<>>
             /\ ~procs'[stdin'].broken /\ ~procs'[stdin'].ended
     /\ (last'.ev = "written" /\ ~last'.data.error /\ Phase = "Streaming")
          => ReqFrames(last'.out) = 1]_vars

\* the first session's write failed and the session was finished; a frame of
\* the second session has been written and acknowledged
C14_Witness ==
  /\ Len(procs) = 2
  /\ procs[1].broken /\ procs[1].ended /\ procs[1].ok = 0
  /\ Phase = "Streaming" /\ stdin = 2
  /\ last.ev = "written" /\ last.data.proc = 2 /\ ~last.data.error
  /\ ReqFrames(last.out) = 1
  /\ procs[2].ok = 1

\* ------------------------------------------------------------ C15
\* C15: when the pipe completes every write and no write fails, every frame
\* handed to an encoder's stdin is eventually written successfully, each
\* completed write sends one request-next-frame to the client, and a finish
\* accepted in Streaming ends the session in Idle. (A completed write and an
\* accepted finish both change procs.)
C15_FramesAcknowledged ==
  /\ \A p \in 1..MaxWork : \A k \in 1..MaxWork :
       (Len(procs) >= p /\ Len(procs[p].written) >= k)
         ~> (Len(procs) >= p /\ procs[p].ok >= k)
  /\ [][last'.ev = "written" => ReqFrames(last'.out) = 1]_procs
  /\ [][(last'.ev = "finish" /\ Phase = "Streaming") => Phase' = "Idle"]_procs

\* a producer that follows the handshake has had three frames written and
\* acknowledged, and its session has been finished
C15_Witness ==
  /\ handshake
  /\ Len(procs) = 1
  /\ Len(procs[1].written) = 3 /\ procs[1].ok = 3
  /\ procs[1].ended
  /\ Phase = "Idle"

\* ------------------------------------------------------------ C16
\* C16 as stated: a request-next-frame is emitted only as the acknowledgement
\* of a completed frame write; neither a start event (in either output
\* format) nor a finish event emits one.
C16_Original ==
  [][ReqFrames(last'.out) > 0
       => (last'.ev = "written" /\ ~last'.data.error /\ ReqFrames(last'.out) = 1)]_vars

\* C16: a request-next-frame is emitted by a start event that opens an mp4
\* session (exactly one, asking for the first frame) and by the callback of
\* a successfully completed frame write (exactly one); a start with any other
\* format, a rejected start, a frame event, a failed write and a finish
\* event emit none.
C16_ReqFrameSources ==
  [][ReqFrames(last'.out) =
       (IF last'.ev = "written"
          THEN (IF last'.data.error THEN 0 ELSE 1)
        ELSE IF last'.ev = "start" /\ isFfmpegInstalled /\ last'.data.format = "mp4"
          THEN 1
        ELSE 0)]_vars

\* an mp4 start has sent the request for the first frame before any frame
\* was written
C16_Witness ==
  /\ last.ev = "start" /\ last.data.format = "mp4"
  /\ ReqFrames(last.out) = 1
  /\ Len(procs) = 1 /\ procs[1].written = <<>>

\* ------------------------------------------------------------ C17
\* C17: each inbound event runs to completion, its pipe write included,
\* before the next one is processed: no start, frame or finish event is
\* handled while a frame write issued by an earlier frame event is still
\* awaiting its callback.
C17_EventsSerialized ==
  [][last'.ev \in {"start", "frame", "finish"} => PendingWrites = 0]_vars

\* ------------------------------------------------------------ C18
\* C18: a start event whose format is neither "mp4" nor "png" spawns no
\* encoder and does not arm the frame flow: the subprocesses, the stdin
\* handle and the ready flag are left as they were, and neither a
\* started-notification nor a request-next-frame is sent.
C18_UnknownFormatNotArmed ==
  [][(last'.ev = "start" /\ last'.data.format \notin {"mp4", "png"})
       => /\ procs' = procs
          /\ stdin' = stdin
          /\ isFfmpegReady' = isFfmpegReady
          /\ Phase' = Phase
          /\ OfType(last'.out, "ssam:log") = {}
          /\ ReqFrames(last'.out) = 0
          /\ \A i \in 1..Len(last'.con) : last'.con[i].text # "streaming started"]_vars

\* the handler has run for a "gif" start with ffmpeg installed, in Idle: the
\* descriptor holds the format, and nothing was spawned or armed
C18_Witness ==
  /\ last.ev = "start" /\ last.data.format = "gif"
  /\ isFfmpegInstalled /\ format = "gif"
  /\ procs = <<>> /\ stdin = 0 /\ ~isFfmpegReady
  /\ last.out = <<>>

\* ------------------------------------------------------------ C19
\* C19: frame bytes are written only to a valid encoder handle: a buffer is
\* handed to a pipe only by a frame event handled in Streaming, the pipe is
\* the stdin of the most recently spawned encoder, and it has not been ended.
C19_WritesToLiveEncoder ==
  [][\A p \in 1..Len(procs) :
       procs'[p].written # procs[p].written
         => /\ last'.ev = "frame"
            /\ Phase = "Streaming"
            /\ p = stdin /\ p = Len(procs)
            /\ ~procs[p].ended
            /\ procs'[p].written = Append(procs[p].written, Decode(last'.data.image))]_vars

\* a frame has been written to the second encoder after the first one's
\* stdin was ended by a finish
C19_Witness ==
  /\ last.ev = "frame"
  /\ Len(procs) = 2 /\ procs[1].ended /\ ~procs[2].ended
  /\ Len(procs[1].written) >= 1
  /\ Len(procs[2].written) >= 1
  /\ stdin = 2

\* ------------------------------------------------------------ C20
\* C20: no request-next-frame is sent while the phase is Idle: after a
\* finish has been handled the client receives none until the next start,
\* even when a frame write issued before the finish completes afterwards.
C20_NoReqFrameInIdle ==
  Phase = "Idle" => ReqFrames(last.out) = 0

\* ------------------------------------------------------------ C21
\* C21: the log option affects only the log and warning notifications: with
\* log disabled no ssam:log or ssam:warn message is sent to the client, and
\* for the same sequence of events the module state, the subprocesses and
\* the bytes written to them, and the request-next-frame notifications are
\* after every event the same as with log enabled; every event handled with
\* log enabled can be handled with log disabled.
C21_LogOnlyAffectsLogs ==
  /\ ~log => (OfType(last.out, "ssam:log") = {} /\ OfType(last.out, "ssam:warn") = {})
  /\ (twin.mode = "replay" /\ twin.idx >= 1) => Observed = twin.obs[twin.idx]
  /\ (twin.mode = "replay" /\ twin.idx < Len(twin.trace)) => ENABLED Replay

\* the run with log disabled has handled the same seven events as the run
\* with log enabled: the probe, a png start with an odd size, a frame, its
\* successful write, the finish (completion log and crop warning when log is
\* on), an mp4 start (which asks for the first frame) and a frame
C21_Witness ==
  /\ twin.mode = "replay" /\ twin.idx = 7 /\ ~log
  /\ last.ev = "frame" /\ last.out = <<>>
  /\ Len(procs) = 2
  /\ procs[1].fmt = "png" /\ procs[1].ok = 1 /\ procs[1].ended /\ cropped = FALSE
  /\ procs[2].fmt = "mp4" /\ Len(procs[2].written) = 1
  /\ twin.trace[5].ev = "finish"
  /\ twin.obs[4].reqframes = <<ReqFrame>>
  /\ twin.obs[6].reqframes = <<ReqFrame>>
  /\ Observed = twin.obs[7]

====
